---- MODULE Spec2Model ----
(***************************************************************************)
(* A model of srcs/hypothesis_recovery_src.py: the overlap prefilter       *)
(* (get_organisms_with_nonzero_overlap), the exclusive hash extractor      *)
(* (get_exclusive_hashes), the hypothesis tester (single_hyp_test,         *)
(* get_alt_mut_rate) and the coverage sweep (hypothesis_recovery).         *)
(*                                                                         *)
(* Real numbers (ani_thresh, significance, min_coverage, probabilities)    *)
(* are exact rationals <<numerator, denominator>>; the code's binary       *)
(* floating point rounding is not modelled.                                *)
(***************************************************************************)
EXTENDS Integers, Sequences, FiniteSets, TLC

VARIABLES
    pc,                         \* position in hypothesis_recovery
    manifest,                   \* the manifest argument (sequence of rows)
    sketches,                   \* md5sum -> the hashes of the stored genome sketch
    sample_hashes,              \* the hashes of sample_sig
    min_coverage_list,          \* the min_coverage_list argument
    params,                     \* ksize, significance, ani_thresh
    dir_exists,                 \* path_to_sample_temp_dir exists on disk
    dir_created,                \* this run created path_to_sample_temp_dir
    tool_runs,                  \* number of times the multisearch command was run
    exit_code,                  \* exit status of the last multisearch run
    nontrivial_organism_names,  \* list returned by the prefilter
    sub_manifest,               \* the candidate subset (rebinds manifest at line 264)
    idx,                        \* loop index over organism_md5sum_list
    todo,                       \* hashes of the loaded sketch not yet iterated
    single_occurrence_hashes,
    multiple_occurrence_hashes,
    live,                       \* names of get_exclusive_hashes still bound to a hash set
    exclusive_hashes_org,
    exclusive_hashes_info,
    cov_idx,                    \* loop index over min_coverage_list
    pool_value,                 \* task index -> result, as the pool's workers deliver
    pool_done,                  \* task indexes in the order the workers finished
    manifest_list,              \* the tables appended so far
    error,                      \* the exception that left hypothesis_recovery, if any
    t_in,                       \* arguments of a direct call of single_hyp_test
    t_out,                      \* its return value
    t_pc                        \* position of the direct call

pipeVars == <<pc, manifest, sketches, sample_hashes, min_coverage_list, params,
              dir_exists, dir_created, tool_runs, exit_code,
              nontrivial_organism_names, sub_manifest, idx, todo,
              single_occurrence_hashes, multiple_occurrence_hashes, live,
              exclusive_hashes_org, exclusive_hashes_info, cov_idx, pool_value,
              pool_done, manifest_list, error>>
testVars == <<t_in, t_out, t_pc>>
vars == <<pipeVars, testVars>>

---------------------------------------------------------------------------
(* Bounds of the model *)

\* hash values are 1..MaxHash
MaxHash == 2
\* direct calls of single_hyp_test take num_exclusive in 0..MaxExclusive
MaxExclusive == 4

Hashes == 1..MaxHash
Md5s == {"m1", "m2", "m3"}
\* os.system's status: zero, or a failure status
ExitCodes == {0, 256}
One == <<1, 1>>
Coverages == {<<1, 4>>, <<1, 2>>, <<3, 4>>, One}
CoverageLists == {<< >>, <<<<1, 2>>, One>>}
Ksizes == {1, 2}
AniThreshs == {<<1, 2>>, <<3, 4>>}
Significances == {<<1, 2>>, <<99, 100>>}
ParamSets == {[ksize |-> 1, significance |-> <<1, 2>>, ani_thresh |-> <<1, 2>>]}

---------------------------------------------------------------------------
(* Exact arithmetic *)

RECURSIVE Pow(_, _)
Pow(b, e) == IF e = 0 THEN 1 ELSE b * Pow(b, e - 1)

RECURSIVE Binomial(_, _)
Binomial(n, j) ==
    IF j = 0 THEN 1
    ELSE IF j > n THEN 0
    ELSE (Binomial(n - 1, j - 1) * n) \div j

Geq(r, q) == r[1] * q[2] >= q[1] * r[2]
OneMinus(r) == <<r[2] - r[1], r[2]>>

---------------------------------------------------------------------------
(* scipy.stats.binom and scipy.special.betaincinv, as single_hyp_test and  *)
(* get_alt_mut_rate call them                                              *)

\* numerator of P(X = j), X ~ Binomial(n, p), over the denominator p[2]^n
PmfNum(j, n, p) == Binomial(n, j) * Pow(p[1], j) * Pow(p[2] - p[1], n - j)

RECURSIVE CdfNum(_, _, _)
CdfNum(x, n, p) ==
    IF x < 0 THEN 0
    ELSE IF x >= n THEN Pow(p[2], n)
    ELSE PmfNum(x, n, p) + CdfNum(x - 1, n, p)

\* binom.cdf(x, n, p) = P(X <= x)
binom_cdf(x, n, p) == <<CdfNum(x, n, p), Pow(p[2], n)>>

RECURSIVE PpfSearch(_, _, _, _)
PpfSearch(x, q, n, p) ==
    IF Geq(binom_cdf(x, n, p), q) THEN x ELSE PpfSearch(x + 1, q, n, p)

\* binom.ppf(q, n, p): -1 at q = 0, n at q = 1, else the least x with cdf(x) >= q
binom_ppf(q, n, p) ==
    IF q[1] = 0 THEN -1
    ELSE IF q[1] = q[2] THEN n
    ELSE PpfSearch(0, q, n, p)

\* betaincinv(a, b, y): not a number outside a > 0, b > 0; y is in (0, 1)
betaincinv(a, b, y) ==
    [kind |-> IF a <= 0 \/ b <= 0 THEN "nan" ELSE "value", a |-> a, b |-> b, root |-> 1]

---------------------------------------------------------------------------
(* get_alt_mut_rate *)

\* the float -1.0
MinusOne == [kind |-> "-1.0", a |-> 0, b |-> 0, root |-> 0]

\* 1 - (1 - x)**(1/ksize): not a number when x is not a number
MutOf(x, ksize) == [x EXCEPT !.root = ksize]

get_alt_mut_rate_unguarded(nu, thresh, ksize, significance) ==
    MutOf(betaincinv(nu - thresh, 1 + thresh, significance), ksize)

get_alt_mut_rate(nu, thresh, ksize, significance) ==
    LET mut == MutOf(betaincinv(nu - thresh, 1 + thresh, significance), ksize)
    IN  IF mut.kind = "nan" THEN MinusOne ELSE mut

---------------------------------------------------------------------------
(* single_hyp_test *)

non_mut_p(ani_thresh, ksize) == <<Pow(ani_thresh[1], ksize), Pow(ani_thresh[2], ksize)>>

CoverageCountOffByOne(num_exclusive_kmers, min_coverage) ==
    (num_exclusive_kmers * min_coverage[1]) \div min_coverage[2] + 1

\* int(num_exclusive_kmers * min_coverage)
CoverageCount(num_exclusive_kmers, min_coverage) ==
    (num_exclusive_kmers * min_coverage[1]) \div min_coverage[2]

AcceptanceThresholdStrict(significance, n_c, p) ==
    binom_ppf(OneMinus(significance), n_c, p) + 1

AcceptanceThreshold(significance, n_c, p) == binom_ppf(OneMinus(significance), n_c, p)

InSampleEstNoZeroGuard(num_matches, threshold) == num_matches >= threshold

InSampleEst(num_matches, threshold) ==
    (num_matches >= threshold) /\ (num_matches # 0) /\ (threshold # 0)

single_hyp_test(info, ksize, significance, ani_thresh, min_coverage) ==
    LET num_exclusive_kmers == info[1]
        p == non_mut_p(ani_thresh, ksize)
        n_c == CoverageCount(num_exclusive_kmers, min_coverage)
        t == AcceptanceThreshold(significance, n_c, p)
        num_matches == info[2]
    IN  [in_sample_est |-> InSampleEst(num_matches, t),
         p_vals |-> binom_cdf(num_matches, num_exclusive_kmers, p),
         num_exclusive_kmers_to_genome |-> num_exclusive_kmers,
         num_exclusive_kmers_to_genome_coverage |-> n_c,
         num_matches |-> num_matches,
         acceptance_threshold_with_coverage |-> t,
         actual_confidence_with_coverage |-> OneMinus(binom_cdf(t, n_c, p)),
         alt_confidence_mut_rate_with_coverage |->
             get_alt_mut_rate(n_c, t, ksize, significance)]

---------------------------------------------------------------------------
(* Sequences and tables *)

Range(s) == {s[i] : i \in DOMAIN s}

RECURSIVE DropDuplicates(_)
DropDuplicates(rows) ==
    IF rows = << >> THEN << >>
    ELSE LET front == DropDuplicates(SubSeq(rows, 1, Len(rows) - 1))
             last == rows[Len(rows)]
         IN  IF last \in Range(front) THEN front ELSE Append(front, last)

\* the rows of sample_multisearch_result.csv: one per (query, match) pair whose
\* sketches share a hash
MultisearchCsv ==
    LET hit(r) == sketches[r.md5sum] \cap sample_hashes # {}
        matches == SelectSeq(manifest, hit)
    IN  [i \in 1..Len(matches) |->
            [query_name |-> "sample",
             match_name |-> matches[i].organism_name,
             match_md5 |-> matches[i].md5sum]]

\* multisearch_result['match_name'].to_list() after drop_duplicates
MatchNames(csv) ==
    LET rows == DropDuplicates(csv)
    IN  [i \in 1..Len(rows) |-> rows[i].match_name]

ExitFailsNever(code) == FALSE

\* if exit_code != 0: raise ValueError
ExitFails(code) == code # 0

\* manifest.loc[manifest['organism_name'].isin(names), :].reset_index(drop=True)
SubManifest(man, names) ==
    LET keep(r) == r.organism_name \in Range(names)
    IN  SelectSeq(man, keep)

organism_md5sum_list(sub) == [i \in 1..Len(sub) |-> sub[i].md5sum]

---------------------------------------------------------------------------
(* get_exclusive_hashes *)

Pass1HashToggle(single, multiple, h) ==
    IF h \in single
    THEN [single |-> single \ {h}, multiple |-> multiple]
    ELSE [single |-> single \cup {h}, multiple |-> multiple]

\* the body of the loop over sig.minhash.hashes in the first pass
Pass1Hash(single, multiple, h) ==
    IF h \in multiple
    THEN [single |-> single, multiple |-> multiple]
    ELSE IF h \in single
    THEN [single |-> single \ {h}, multiple |-> multiple \cup {h}]
    ELSE [single |-> single \cup {h}, multiple |-> multiple]

Pass1ListButLast(md5sums) == SubSeq(md5sums, 1, Len(md5sums) - 1)

\* the list the first pass iterates: for md5sum in tqdm(organism_md5sum_list)
Pass1List(md5sums) == md5sums

\* __find_exclusive_hashes
find_exclusive_hashes(md5sum, single) == {h \in sketches[md5sum] : h \in single}

\* (len(exclusive_hashes), len(exclusive_hashes.intersection(sample_hashes)))
ExclusiveInfo(exclusive_hashes, sample) ==
    <<Cardinality(exclusive_hashes), Cardinality(exclusive_hashes \cap sample)>>

RECURSIVE ScanSketch(_, _)
ScanSketch(acc, hashes) ==
    IF hashes = {} THEN acc
    ELSE LET h == CHOOSE x \in hashes : TRUE
         IN  ScanSketch(Pass1Hash(acc.single, acc.multiple, h), hashes \ {h})

RECURSIVE FirstPass(_, _)
FirstPass(acc, md5sums) ==
    IF md5sums = << >> THEN acc
    ELSE FirstPass(ScanSketch(acc, sketches[Head(md5sums)]), Tail(md5sums))

\* exclusive_hashes_info as get_exclusive_hashes returns it for the candidates
\* taken in the order md5sums
get_exclusive_hashes(md5sums) ==
    LET first == FirstPass([single |-> {}, multiple |-> {}], Pass1List(md5sums))
    IN  [i \in 1..Len(md5sums) |->
            ExclusiveInfo(find_exclusive_hashes(md5sums[i], first.single),
                          sample_hashes)]

---------------------------------------------------------------------------
(* hypothesis_recovery: the coverage sweep *)

StarmapCompletionOrder(value, done) == [j \in 1..Len(done) |-> value[done[j]]]

\* p.starmap(single_hyp_test, params): the results in the order of the tasks
Starmap(value, done) == [i \in 1..Len(done) |-> value[i]]

\* manifest['min_coverage'] = min_coverage
TagManifest(man, min_coverage) ==
    [i \in 1..Len(man) |-> [man[i] EXCEPT !.min_coverage = min_coverage]]

\* pd.concat([manifest, results], axis=1)
Concat(man, results) ==
    [i \in 1..Len(man) |->
        [organism_name |-> man[i].organism_name,
         md5sum |-> man[i].md5sum,
         min_coverage |-> man[i].min_coverage,
         result |-> results[i]]]

ConcatAppendShared(list, man, results) ==
    [j \in 1..(Len(list) + 1) |->
        IF j <= Len(list)
        THEN [i \in 1..Len(list[j]) |->
                 [list[j][i] EXCEPT !.min_coverage = man[i].min_coverage]]
        ELSE Concat(man, results)]

\* manifest_list.append(pd.concat([manifest, results], axis=1))
ConcatAppend(list, man, results) == Append(list, Concat(man, results))

---------------------------------------------------------------------------
(* Initial states *)

NameMaps ==
    {[m \in Md5s |-> CASE m = "m1" -> "A" [] m = "m2" -> "B" [] OTHER -> "C"],
     [m \in Md5s |-> CASE m = "m1" -> "A" [] m = "m2" -> "A" [] OTHER -> "B"]}

\* manifests: one row per genome; the sketches range over every assignment, so
\* every sequence of sketches is processed; min_coverage holds 0.0 on entry
Md5Order == <<"m1", "m2", "m3">>

Manifests ==
    {[i \in 1..Len(Md5Order) |->
         [organism_name |-> nm[Md5Order[i]],
          md5sum |-> Md5Order[i],
          min_coverage |-> <<0, 1>>]] : nm \in NameMaps}

NoResult == [in_sample_est |-> FALSE]

PipeIdle ==
    /\ dir_created = FALSE
    /\ tool_runs = 0
    /\ exit_code = 0
    /\ nontrivial_organism_names = << >>
    /\ sub_manifest = << >>
    /\ idx = 0
    /\ todo = {}
    /\ single_occurrence_hashes = {}
    /\ multiple_occurrence_hashes = {}
    /\ live = {}
    /\ exclusive_hashes_org = << >>
    /\ exclusive_hashes_info = << >>
    /\ cov_idx = 0
    /\ pool_value = << >>
    /\ pool_done = << >>
    /\ manifest_list = << >>
    /\ error = "none"

Init ==
    /\ pc = "start"
    /\ manifest \in Manifests
    /\ sketches \in [Md5s -> SUBSET Hashes]
    /\ sample_hashes \in SUBSET Hashes
    /\ min_coverage_list \in CoverageLists
    /\ params \in ParamSets
    /\ dir_exists \in BOOLEAN
    /\ PipeIdle
    /\ t_in = [num_exclusive |-> 0]
    /\ t_out = NoResult
    /\ t_pc = "idle"

TestInit ==
    /\ pc = "idle"
    /\ manifest = << >>
    /\ sketches = [m \in Md5s |-> {}]
    /\ sample_hashes = {}
    /\ min_coverage_list = << >>
    /\ params \in ParamSets
    /\ dir_exists = FALSE
    /\ PipeIdle
    /\ t_in \in [num_exclusive : 0..MaxExclusive,
                 num_matches : 0..(MaxExclusive + 1),
                 ksize : Ksizes,
                 significance : Significances,
                 ani_thresh : AniThreshs,
                 min_coverage : Coverages]
    /\ t_out = NoResult
    /\ t_pc = "call"

---------------------------------------------------------------------------
(* hypothesis_recovery, step by step *)

Candidates == organism_md5sum_list(sub_manifest)

\* lines 254-258: create the per-sample directory unless it exists
MakeTempDir ==
    /\ pc = "start"
    /\ dir_created' = ~dir_exists
    /\ dir_exists' = TRUE
    /\ pc' = "multisearch"
    /\ UNCHANGED <<manifest, sketches, sample_hashes, min_coverage_list, params,
                   tool_runs, exit_code, nontrivial_organism_names, sub_manifest,
                   idx, todo, single_occurrence_hashes, multiple_occurrence_hashes,
                   live, exclusive_hashes_org, exclusive_hashes_info, cov_idx,
                   pool_value, pool_done, manifest_list, error, testVars>>

\* get_organisms_with_nonzero_overlap: run the tool once, raise on a non-zero
\* status, else read the result table
RunMultisearch ==
    /\ pc = "multisearch"
    /\ \E code \in ExitCodes :
        /\ exit_code' = code
        /\ tool_runs' = tool_runs + 1
        /\ IF ExitFails(code)
           THEN /\ pc' = "failed"
                /\ error' = "ValueError"
                /\ UNCHANGED nontrivial_organism_names
           ELSE /\ pc' = "extract"
                /\ nontrivial_organism_names' = MatchNames(MultisearchCsv)
                /\ UNCHANGED error
    /\ UNCHANGED <<manifest, sketches, sample_hashes, min_coverage_list, params,
                   dir_exists, dir_created, sub_manifest, idx, todo,
                   single_occurrence_hashes, multiple_occurrence_hashes, live,
                   exclusive_hashes_org, exclusive_hashes_info, cov_idx,
                   pool_value, pool_done, manifest_list, testVars>>

\* get_exclusive_hashes, lines 100-104
EnterExtract ==
    /\ pc = "extract"
    /\ sub_manifest' = SubManifest(manifest, nontrivial_organism_names)
    /\ single_occurrence_hashes' = {}
    /\ multiple_occurrence_hashes' = {}
    /\ live' = {"single_occurrence_hashes", "multiple_occurrence_hashes"}
    /\ idx' = 1
    /\ pc' = "pass1"
    /\ UNCHANGED <<manifest, sketches, sample_hashes, min_coverage_list, params,
                   dir_exists, dir_created, tool_runs, exit_code,
                   nontrivial_organism_names, todo, exclusive_hashes_org,
                   exclusive_hashes_info, cov_idx, pool_value, pool_done,
                   manifest_list, error, testVars>>

\* line 106: load the next candidate's sketch
Pass1Load ==
    /\ pc = "pass1"
    /\ idx <= Len(Pass1List(Candidates))
    /\ todo' = sketches[Pass1List(Candidates)[idx]]
    /\ pc' = "pass1_scan"
    /\ UNCHANGED <<manifest, sketches, sample_hashes, min_coverage_list, params,
                   dir_exists, dir_created, tool_runs, exit_code,
                   nontrivial_organism_names, sub_manifest, idx,
                   single_occurrence_hashes, multiple_occurrence_hashes, live,
                   exclusive_hashes_org, exclusive_hashes_info, cov_idx,
                   pool_value, pool_done, manifest_list, error, testVars>>

\* lines 107-114: one hash of the loaded sketch
Pass1Step ==
    /\ pc = "pass1_scan"
    /\ \E h \in todo :
        LET next == Pass1Hash(single_occurrence_hashes, multiple_occurrence_hashes, h)
        IN  /\ single_occurrence_hashes' = next.single
            /\ multiple_occurrence_hashes' = next.multiple
            /\ todo' = todo \ {h}
    /\ UNCHANGED <<pc, manifest, sketches, sample_hashes, min_coverage_list, params,
                   dir_exists, dir_created, tool_runs, exit_code,
                   nontrivial_organism_names, sub_manifest, idx, live,
                   exclusive_hashes_org, exclusive_hashes_info, cov_idx,
                   pool_value, pool_done, manifest_list, error, testVars>>

\* the sketch is exhausted: next candidate
Pass1EndSketch ==
    /\ pc = "pass1_scan"
    /\ todo = {}
    /\ idx' = idx + 1
    /\ pc' = "pass1"
    /\ UNCHANGED <<manifest, sketches, sample_hashes, min_coverage_list, params,
                   dir_exists, dir_created, tool_runs, exit_code,
                   nontrivial_organism_names, sub_manifest, todo,
                   single_occurrence_hashes, multiple_occurrence_hashes, live,
                   exclusive_hashes_org, exclusive_hashes_info, cov_idx,
                   pool_value, pool_done, manifest_list, error, testVars>>

\* lines 115-119: del multiple_occurrence_hashes; exclusive_hashes_org = []
DelMultiple ==
    /\ pc = "pass1"
    /\ idx > Len(Pass1List(Candidates))
    /\ multiple_occurrence_hashes' = {}
    /\ live' = (live \ {"multiple_occurrence_hashes"}) \cup {"exclusive_hashes_org"}
    /\ exclusive_hashes_org' = << >>
    /\ idx' = 1
    /\ pc' = "pass2"
    /\ UNCHANGED <<manifest, sketches, sample_hashes, min_coverage_list, params,
                   dir_exists, dir_created, tool_runs, exit_code,
                   nontrivial_organism_names, sub_manifest, todo,
                   single_occurrence_hashes, exclusive_hashes_info, cov_idx,
                   pool_value, pool_done, manifest_list, error, testVars>>

\* lines 120-121: one candidate of the second pass
FindExclusive ==
    /\ pc = "pass2"
    /\ idx <= Len(Candidates)
    /\ exclusive_hashes_org' =
           Append(exclusive_hashes_org,
                  find_exclusive_hashes(Candidates[idx], single_occurrence_hashes))
    /\ idx' = idx + 1
    /\ UNCHANGED <<pc, manifest, sketches, sample_hashes, min_coverage_list, params,
                   dir_exists, dir_created, tool_runs, exit_code,
                   nontrivial_organism_names, sub_manifest, todo,
                   single_occurrence_hashes, multiple_occurrence_hashes, live,
                   exclusive_hashes_info, cov_idx, pool_value, pool_done,
                   manifest_list, error, testVars>>

\* load_signature_with_ksize raises (lines 96, 106): the exception leaves
\* get_exclusive_hashes and hypothesis_recovery, whose frames drop their sets
LoadFails ==
    /\ pc \in {"pass1", "pass2"}
    /\ idx <= Len(Candidates)
    /\ pc' = "failed"
    /\ error' = "load_signature"
    /\ live' = {}
    /\ single_occurrence_hashes' = {}
    /\ multiple_occurrence_hashes' = {}
    /\ exclusive_hashes_org' = << >>
    /\ UNCHANGED <<manifest, sketches, sample_hashes, min_coverage_list, params,
                   dir_exists, dir_created, tool_runs, exit_code,
                   nontrivial_organism_names, sub_manifest, idx, todo,
                   exclusive_hashes_info, cov_idx, pool_value, pool_done,
                   manifest_list, testVars>>

\* line 122: del single_occurrence_hashes
DelSingle ==
    /\ pc = "pass2"
    /\ idx > Len(Candidates)
    /\ single_occurrence_hashes' = {}
    /\ live' = live \ {"single_occurrence_hashes"}
    /\ idx' = 1
    /\ pc' = "counts"
    /\ UNCHANGED <<manifest, sketches, sample_hashes, min_coverage_list, params,
                   dir_exists, dir_created, tool_runs, exit_code,
                   nontrivial_organism_names, sub_manifest, todo,
                   multiple_occurrence_hashes, exclusive_hashes_org,
                   exclusive_hashes_info, cov_idx, pool_value, pool_done,
                   manifest_list, error, testVars>>

\* lines 130-132: one candidate's pair of counts
CountStep ==
    /\ pc = "counts"
    /\ idx <= Len(exclusive_hashes_org)
    /\ exclusive_hashes_info' =
           Append(exclusive_hashes_info,
                  ExclusiveInfo(exclusive_hashes_org[idx], sample_hashes))
    /\ idx' = idx + 1
    /\ UNCHANGED <<pc, manifest, sketches, sample_hashes, min_coverage_list, params,
                   dir_exists, dir_created, tool_runs, exit_code,
                   nontrivial_organism_names, sub_manifest, todo,
                   single_occurrence_hashes, multiple_occurrence_hashes, live,
                   exclusive_hashes_org, cov_idx, pool_value, pool_done,
                   manifest_list, error, testVars>>

\* line 134: return; the frame drops exclusive_hashes_org
ReturnExtract ==
    /\ pc = "counts"
    /\ idx > Len(exclusive_hashes_org)
    /\ exclusive_hashes_org' = << >>
    /\ live' = {}
    /\ cov_idx' = 1
    /\ manifest_list' = << >>
    /\ pc' = "sweep"
    /\ UNCHANGED <<manifest, sketches, sample_hashes, min_coverage_list, params,
                   dir_exists, dir_created, tool_runs, exit_code,
                   nontrivial_organism_names, sub_manifest, idx, todo,
                   single_occurrence_hashes, multiple_occurrence_hashes,
                   exclusive_hashes_info, pool_value, pool_done, error,
                   testVars>>

\* lines 285-288: open a pool for the next coverage value
PoolStart ==
    /\ pc = "sweep"
    /\ cov_idx <= Len(min_coverage_list)
    /\ pool_value' = << >>
    /\ pool_done' = << >>
    /\ pc' = "pool"
    /\ UNCHANGED <<manifest, sketches, sample_hashes, min_coverage_list, params,
                   dir_exists, dir_created, tool_runs, exit_code,
                   nontrivial_organism_names, sub_manifest, idx, todo,
                   single_occurrence_hashes, multiple_occurrence_hashes, live,
                   exclusive_hashes_org, exclusive_hashes_info, cov_idx,
                   manifest_list, error, testVars>>

\* a worker of the pool delivers the result of one task, in any order
WorkerFinish ==
    /\ pc = "pool"
    /\ \E i \in (1..Len(exclusive_hashes_info)) \ Range(pool_done) :
        LET row == single_hyp_test(exclusive_hashes_info[i], params.ksize,
                                   params.significance, params.ani_thresh,
                                   min_coverage_list[cov_idx])
        IN  /\ pool_value' = [j \in (DOMAIN pool_value) \cup {i} |->
                                 IF j = i THEN row ELSE pool_value[j]]
            /\ pool_done' = Append(pool_done, i)
    /\ UNCHANGED <<pc, manifest, sketches, sample_hashes, min_coverage_list, params,
                   dir_exists, dir_created, tool_runs, exit_code,
                   nontrivial_organism_names, sub_manifest, idx, todo,
                   single_occurrence_hashes, multiple_occurrence_hashes, live,
                   exclusive_hashes_org, exclusive_hashes_info, cov_idx,
                   manifest_list, error, testVars>>

\* lines 289-296: starmap returns, the table of this coverage value is appended
Collect ==
    /\ pc = "pool"
    /\ Len(pool_done) = Len(exclusive_hashes_info)
    /\ LET results == Starmap(pool_value, pool_done)
           tagged == TagManifest(sub_manifest, min_coverage_list[cov_idx])
       IN  /\ sub_manifest' = tagged
           /\ manifest_list' = ConcatAppend(manifest_list, tagged, results)
    /\ pool_value' = << >>
    /\ pool_done' = << >>
    /\ cov_idx' = cov_idx + 1
    /\ pc' = "sweep"
    /\ UNCHANGED <<manifest, sketches, sample_hashes, min_coverage_list, params,
                   dir_exists, dir_created, tool_runs, exit_code,
                   nontrivial_organism_names, idx, todo,
                   single_occurrence_hashes, multiple_occurrence_hashes, live,
                   exclusive_hashes_org, exclusive_hashes_info, error, testVars>>

\* line 298: return manifest_list
ReturnTables ==
    /\ pc = "sweep"
    /\ cov_idx > Len(min_coverage_list)
    /\ pc' = "done"
    /\ UNCHANGED <<manifest, sketches, sample_hashes, min_coverage_list, params,
                   dir_exists, dir_created, tool_runs, exit_code,
                   nontrivial_organism_names, sub_manifest, idx, todo,
                   single_occurrence_hashes, multiple_occurrence_hashes, live,
                   exclusive_hashes_org, exclusive_hashes_info, cov_idx,
                   pool_value, pool_done, manifest_list, error, testVars>>

Next ==
    \/ MakeTempDir
    \/ RunMultisearch
    \/ EnterExtract
    \/ Pass1Load
    \/ Pass1Step
    \/ Pass1EndSketch
    \/ DelMultiple
    \/ FindExclusive
    \/ LoadFails
    \/ DelSingle
    \/ CountStep
    \/ ReturnExtract
    \/ PoolStart
    \/ WorkerFinish
    \/ Collect
    \/ ReturnTables

Spec == Init /\ [][Next]_vars

\* a direct call of single_hyp_test
TestCall ==
    /\ t_pc = "call"
    /\ t_out' = single_hyp_test(<<t_in.num_exclusive, t_in.num_matches>>,
                                t_in.ksize, t_in.significance, t_in.ani_thresh,
                                t_in.min_coverage)
    /\ t_pc' = "returned"
    /\ UNCHANGED <<t_in, pipeVars>>

TestNext == TestCall

SpecTest == TestInit /\ [][TestNext]_vars

---------------------------------------------------------------------------
(* Properties *)

\* in how many candidates' sketches the hash h occurs
Occurrences(h) ==
    Cardinality({i \in 1..Len(Candidates) : h \in sketches[Candidates[i]]})

FirstPassOver == pc = "pass1" /\ idx > Len(Candidates)

\* C1: when the first pass of get_exclusive_hashes has processed the sketches of
\* all candidates, single_occurrence_hashes is exactly the set of hashes that
\* occur in the sketch of exactly one candidate.
C1_SeenOnceIsExclusive ==
    FirstPassOver =>
        single_occurrence_hashes = {h \in Hashes : Occurrences(h) = 1}

\* the first pass is over, one hash occurs in one candidate and is kept, another
\* occurs in all three and is left out
C1_Witness ==
    /\ FirstPassOver
    /\ \E h \in single_occurrence_hashes : Occurrences(h) = 1
    /\ \E h \in Hashes : Occurrences(h) = 3 /\ h \notin single_occurrence_hashes

Permuted(seq, f) == [i \in 1..Len(seq) |-> seq[f[i]]]

\* C2: the pair of counts get_exclusive_hashes gives a genome is the pair it
\* gives that genome under every other order of the candidate list.
C2_OrderIndependent ==
    pc = "sweep" =>
        \A f \in Permutations(1..Len(Candidates)) :
            LET other == get_exclusive_hashes(Permuted(Candidates, f))
            IN  \A i \in 1..Len(Candidates) :
                    other[i] = exclusive_hashes_info[f[i]]

\* three candidates were processed, two of them share a hash, and one has an
\* exclusive hash that is in the sample
C2_Witness ==
    /\ pc = "sweep"
    /\ Len(Candidates) = 3
    /\ \E h \in Hashes : Occurrences(h) = 2
    /\ \E i \in 1..Len(exclusive_hashes_info) : exclusive_hashes_info[i] = <<1, 1>>

Returned == t_pc = "returned"

\* the parameters of the binomial law the direct call tests against
TestP == non_mut_p(t_in.ani_thresh, t_in.ksize)
TestQ == OneMinus(t_in.significance)

\* floor(num_exclusive * c): the integer k with k <= num_exclusive * c < k + 1
FloorOfProduct(n, c) ==
    CHOOSE k \in 0..n : k * c[2] <= n * c[1] /\ n * c[1] < (k + 1) * c[2]

\* P(X <= x) >= 1 - s for X ~ Binomial(n, p)
AtMostReaches(x, n) == Geq(<<CdfNum(x, n, TestP), Pow(TestP[2], n)>>, TestQ)

\* the quantile: the least count x with P(X <= x) >= 1 - s
Quantile(n) ==
    CHOOSE x \in 0..n : AtMostReaches(x, n) /\ \A y \in 0..(x - 1) : ~AtMostReaches(y, n)

\* C3: single_hyp_test returns in_sample_est = true exactly when
\* num_matched >= t, num_matched # 0 and t # 0, t being the coverage-adjusted
\* acceptance threshold; zero matches and a zero threshold both give false.
C3_PresenceDecision ==
    Returned =>
        LET t == Quantile(FloorOfProduct(t_in.num_exclusive, t_in.min_coverage))
            m == t_in.num_matches
        IN  /\ t_out.in_sample_est = (m >= t /\ m # 0 /\ t # 0)
            /\ (m = 0 => t_out.in_sample_est = FALSE)
            /\ (t = 0 => t_out.in_sample_est = FALSE)

\* a call with matches and a zero threshold: the raw inequality holds and the
\* genome is not called present
C3_Witness ==
    /\ Returned
    /\ t_in.num_exclusive > 0
    /\ t_in.num_matches > 0
    /\ t_out.acceptance_threshold_with_coverage = 0
    /\ t_out.in_sample_est = FALSE

\* C4 as stated: t is the smallest count such that the probability of observing
\* fewer than t matches under Binomial(n_c, p), n_c = floor(num_exclusive * c),
\* p = a^k, is at least 1 - s.
C4_ThresholdFewerThan ==
    Returned =>
        LET n_c == t_out.num_exclusive_kmers_to_genome_coverage
            t == t_out.acceptance_threshold_with_coverage
        IN  /\ n_c = FloorOfProduct(t_in.num_exclusive, t_in.min_coverage)
            /\ AtMostReaches(t - 1, n_c)
            /\ \A x \in 0..(t - 1) : ~AtMostReaches(x - 1, n_c)

\* C4 amended: t is the smallest count such that the probability of observing
\* at most t matches under Binomial(n_c, p), n_c = floor(num_exclusive * c),
\* p = a^k, is at least 1 - s (the (1 - s)-quantile).
C4_ThresholdAtMost ==
    Returned =>
        LET n_c == t_out.num_exclusive_kmers_to_genome_coverage
            t == t_out.acceptance_threshold_with_coverage
        IN  /\ n_c = FloorOfProduct(t_in.num_exclusive, t_in.min_coverage)
            /\ AtMostReaches(t, n_c)
            /\ \A x \in 0..(t - 1) : ~AtMostReaches(x, n_c)

\* a call whose coverage cuts the trial count and whose threshold is positive,
\* so that smaller counts exist and fall short
C4_Witness ==
    /\ Returned
    /\ t_out.num_exclusive_kmers_to_genome_coverage < t_in.num_exclusive
    /\ t_out.acceptance_threshold_with_coverage >= 2

AtFullCoverage ==
    single_hyp_test(<<t_in.num_exclusive, t_in.num_matches>>, t_in.ksize,
                    t_in.significance, t_in.ani_thresh, One)

\* C5: for every coverage c in (0, 1], n_c is at most num_exclusive and the
\* threshold at c is at most the threshold of the same call at c = 1.
C5_CoverageMonotone ==
    Returned =>
        /\ t_out.num_exclusive_kmers_to_genome_coverage <= t_in.num_exclusive
        /\ t_out.acceptance_threshold_with_coverage
               <= AtFullCoverage.acceptance_threshold_with_coverage

\* a call at a coverage below 1 whose threshold is strictly below the one at 1
C5_Witness ==
    /\ Returned
    /\ t_in.min_coverage # One
    /\ t_out.num_exclusive_kmers_to_genome_coverage < t_in.num_exclusive
    /\ t_out.acceptance_threshold_with_coverage
           < AtFullCoverage.acceptance_threshold_with_coverage

\* the counts of candidate i by definition: its hashes that occur in no other
\* candidate's sketch, and those of them that the sample holds
TrueInfo(i) ==
    LET own == {h \in sketches[Candidates[i]] : Occurrences(h) = 1}
    IN  <<Cardinality(own), Cardinality(own \cap sample_hashes)>>

TestAt(info, min_coverage) ==
    single_hyp_test(info, params.ksize, params.significance, params.ani_thresh,
                    min_coverage)

\* the rows of the manifest the prefilter's names select, in manifest order
CandidateRows == SubManifest(manifest, nontrivial_organism_names)

\* C6: hypothesis_recovery returns one table per entry of min_coverage_list, in
\* the list's order, and row i of every table holds candidate i of the candidate
\* subset with the test result of that candidate, whatever order the workers
\* finished in.
C6_TablesAligned ==
    pc = "done" =>
        /\ Len(manifest_list) = Len(min_coverage_list)
        /\ \A j \in 1..Len(manifest_list) :
            /\ Len(manifest_list[j]) = Len(CandidateRows)
            /\ \A i \in 1..Len(manifest_list[j]) :
                /\ manifest_list[j][i].md5sum = CandidateRows[i].md5sum
                /\ manifest_list[j][i].organism_name = CandidateRows[i].organism_name
                /\ manifest_list[j][i].result = TestAt(TrueInfo(i), min_coverage_list[j])

\* two tables of three rows were returned, the rows of a table differ from one
\* another and the two tables differ
C6_Witness ==
    /\ pc = "done"
    /\ Len(manifest_list) = 2
    /\ Len(manifest_list[1]) = 3
    /\ manifest_list[1][1].result # manifest_list[1][2].result
    /\ manifest_list[1][2].result # manifest_list[1][3].result
    /\ manifest_list[1][1].result # manifest_list[2][1].result

\* C7: a non-zero exit status of the tool ends hypothesis_recovery with the
\* error of get_organisms_with_nonzero_overlap, after one run of the tool and
\* with no table; a zero status with no match is no error and gives one table
\* of zero rows per coverage value.
C7_ToolFailureAndEmptyResult ==
    /\ tool_runs <= 1
    /\ (tool_runs = 1 /\ exit_code # 0) =>
           (pc = "failed" /\ error = "ValueError" /\ manifest_list = << >>)
    /\ (tool_runs = 1 /\ exit_code = 0 /\ MultisearchCsv = << >>) =>
           /\ pc # "failed"
           /\ error = "none"
           /\ pc = "done" =>
                  /\ Len(manifest_list) = Len(min_coverage_list)
                  /\ \A j \in 1..Len(manifest_list) : manifest_list[j] = << >>

\* the tool exited with a non-zero status and the run has ended in its error
C7_Witness ==
    /\ pc = "failed"
    /\ tool_runs = 1
    /\ exit_code # 0
    /\ error = "ValueError"

\* every hash of candidate i occurs in another candidate's sketch
Redundant(i) ==
    \A h \in sketches[Candidates[i]] :
        \E k \in 1..Len(Candidates) : k # i /\ h \in sketches[Candidates[k]]

\* the inverse-beta solve of a result row is undefined
SolveUndefined(r) ==
    betaincinv(r.num_exclusive_kmers_to_genome_coverage
                   - r.acceptance_threshold_with_coverage,
               1 + r.acceptance_threshold_with_coverage,
               params.significance).kind = "nan"

\* C8: a candidate all of whose hashes occur in another candidate's sketch gets
\* (0, 0); every table holds a row for it, with in_sample_est false and, when
\* the inverse-beta solve is undefined, -1.0 for the alternative mutation rate.
C8_RedundantGenome ==
    /\ \A i \in 1..Len(exclusive_hashes_info) :
           Redundant(i) => exclusive_hashes_info[i] = <<0, 0>>
    /\ pc = "done" => \A j \in 1..Len(min_coverage_list) : j <= Len(manifest_list)
    /\ \A j \in 1..Len(manifest_list) :
           \A i \in 1..Len(Candidates) :
               Redundant(i) =>
                   /\ i <= Len(manifest_list[j])
                   /\ manifest_list[j][i].result.num_exclusive_kmers_to_genome = 0
                   /\ manifest_list[j][i].result.in_sample_est = FALSE
                   /\ manifest_list[j][i].result.alt_confidence_mut_rate_with_coverage.kind
                          # "nan"
                   /\ SolveUndefined(manifest_list[j][i].result) =>
                          manifest_list[j][i].result.alt_confidence_mut_rate_with_coverage
                              = MinusOne

\* a run returned two tables; a candidate with a non-empty sketch shared with
\* another candidate has a row with an undefined solve reported as -1.0
C8_Witness ==
    /\ pc = "done"
    /\ Len(manifest_list) = 2
    /\ \E i \in 1..Len(Candidates) :
        /\ Redundant(i)
        /\ sketches[Candidates[i]] # {}
        /\ exclusive_hashes_info[i] = <<0, 0>>
        /\ SolveUndefined(manifest_list[1][i].result)
        /\ manifest_list[2][i].result.alt_confidence_mut_rate_with_coverage = MinusOne

Ended == pc \in {"done", "failed"}

\* C9: when a run of hypothesis_recovery has ended, normally or in a failure,
\* the temporary directory it created is gone and no name of
\* get_exclusive_hashes still holds a hash set.
C9_ResourcesReleased ==
    Ended => (dir_created => ~dir_exists) /\ live = {}

\* C10: every row of table j carries min_coverage_list[j] and the result
\* computed at that coverage, in every state from the table's appending on:
\* later iterations, which overwrite the manifest's min_coverage, do not change it.
C10_TablesKeepCoverage ==
    \A j \in 1..Len(manifest_list) :
        \A i \in 1..Len(manifest_list[j]) :
            /\ manifest_list[j][i].min_coverage = min_coverage_list[j]
            /\ manifest_list[j][i].result
                   = TestAt(exclusive_hashes_info[i], min_coverage_list[j])

\* two tables were returned for two different coverage values; the manifest's
\* column holds the second value and the first table still carries the first
C10_Witness ==
    /\ pc = "done"
    /\ Len(manifest_list) = 2
    /\ min_coverage_list[1] # min_coverage_list[2]
    /\ Len(sub_manifest) >= 2
    /\ sub_manifest[1].min_coverage = min_coverage_list[2]
    /\ manifest_list[1][1].min_coverage = min_coverage_list[1]
    /\ manifest_list[1][1].result # manifest_list[2][1].result

\* no element occurs at two positions of the sequence
NoRepeat(seq) == \A i, j \in 1..Len(seq) : seq[i] = seq[j] => i = j

\* C11: the list the prefilter returns holds no name twice, and organism_name
\* is unique among the rows of the sub-manifest get_exclusive_hashes builds,
\* also when the manifest holds several rows with one organism_name.
C11_CandidateNamesUnique ==
    /\ NoRepeat(nontrivial_organism_names)
    /\ NoRepeat([i \in 1..Len(sub_manifest) |-> sub_manifest[i].organism_name])

====
